---- MODULE Spec2Model ----
(***************************************************************************)
(* Model of ai_diffusion/custom_workflow.py: the WorkflowCollection list   *)
(* model, the SortedWorkflows comparator, the parameter extraction         *)
(* (_gather_params), the parameter coercion (_coerce) and the              *)
(* CustomWorkspace that observes the collection through Qt signals.        *)
(*                                                                         *)
(* Python str values that are compared or stripped (workflow ids, file     *)
(* names) are sequences of code points.  Python values held in node inputs *)
(* and in params are tagged with their runtime type.  Python ints are      *)
(* unbounded; an int n is held as the pair (hi, lo) with n = hi*2^16 + lo  *)
(* and 0 <= lo < 2^16, so that 2^31 is representable.                      *)
(***************************************************************************)
EXTENDS Integers, Sequences, FiniteSets, TLC

VARIABLES
    workflows,    \* WorkflowCollection._workflows: list of CustomWorkflow
    log,          \* file names reported through log.exception while loading
    phase,        \* "new" | "loaded" | "run" | "aborted"
    workflow_id,  \* CustomWorkspace._workflow_id
    workflow,     \* CustomWorkspace._workflow: <<>> (None) or <<row>>, a reference to a list entry
    graph,        \* CustomWorkspace._graph: <<>> (None) or <<ComfyWorkflow>>
    metadata,     \* CustomWorkspace._metadata: list of CustomParam
    params,       \* CustomWorkspace.params: dict
    events,       \* signals emitted during the last entry-point call, in order
    call,         \* the last entry-point call and its arguments
    raised,       \* exception that propagated to the caller of the last call ("" if none)
    slot_exc,     \* exception raised inside a slot during the last call ("" if none)
    trace,        \* where the last call entered and left slots and resolutions, in order
    ncalls        \* number of entry-point calls made on the running system

vars == <<workflows, log, phase, workflow_id, workflow, graph, metadata, params,
          events, call, raised, slot_exc, trace, ncalls>>

----------------------------------------------------------------------------
(* Bounds of the model *)

MaxCalls == 2
MaxFiles == 2
MaxRemote == 1

----------------------------------------------------------------------------
(* Python str as code points *)

S_empty == <<>>
S_a == <<97>>
S_B == <<66>>
S_b_json == <<98, 46, 106, 115, 111, 110>>
S_dot_json == <<46, 106, 115, 111, 110>>
S_a_json == <<97>> \o S_dot_json
S_B_json == <<66>> \o S_dot_json
S_a_txt == <<97, 46, 116, 120, 116>>

EndsWith(s, suffix) ==
    /\ Len(s) >= Len(suffix)
    /\ SubSeq(s, Len(s) - Len(suffix) + 1, Len(s)) = suffix

\* str.removesuffix
RemoveSuffix(s, suffix) ==
    IF Len(suffix) > 0 /\ EndsWith(s, suffix)
    THEN SubSeq(s, 1, Len(s) - Len(suffix))
    ELSE s

\* Python's str.__lt__: lexicographic on code points, a proper prefix is smaller
RECURSIVE StrLess(_, _)
StrLess(a, b) ==
    IF b = <<>> THEN FALSE
    ELSE IF a = <<>> THEN TRUE
    ELSE IF Head(a) # Head(b) THEN Head(a) < Head(b)
    ELSE StrLess(Tail(a), Tail(b))

\* pathlib: PurePath.stem, the name without its last suffix
LastDot(s) ==
    LET dots == {i \in 1..Len(s) : s[i] = 46}
    IN IF dots = {} THEN 0 ELSE CHOOSE i \in dots : \A j \in dots : j <= i

Stem(name) ==
    LET i == LastDot(name)
    IN IF i > 1 /\ i < Len(name) THEN SubSeq(name, 1, i - 1) ELSE name

----------------------------------------------------------------------------
(* Python values with their runtime type *)

NoneV == [kind |-> "NoneType", hi |-> 0, lo |-> 0, s |-> ""]
IntV(hi, lo) == [kind |-> "int", hi |-> hi, lo |-> lo, s |-> ""]
StrV(str) == [kind |-> "str", hi |-> 0, lo |-> 0, s |-> str]

TypeOf(v) == v.kind

EmptyDict == [k \in {} |-> NoneV]

\* dict.get(key) with the default None
DictGet(d, k) == IF k \in DOMAIN d THEN d[k] ELSE NoneV

----------------------------------------------------------------------------
(* Graph payloads and the graph representation (comfy_workflow.ComfyWorkflow) *)

RawNode(class_type, inputs) == [class_type |-> class_type, inputs |-> inputs]

In1(k1, v1) == [k \in {k1} |-> v1]
In2(k1, v1, k2, v2) == [k \in {k1, k2} |-> IF k = k1 THEN v1 ELSE v2]
In4(k1, v1, k2, v2, k3, v3, k4, v4) ==
    [k \in {k1, k2, k3, k4} |->
        IF k = k1 THEN v1 ELSE IF k = k2 THEN v2 ELSE IF k = k3 THEN v3 ELSE v4]

\* the graph of the spec's example: three recognized nodes and one other node
G_spec ==
    << RawNode(StrV("ETN_KritaImageLayer"), In1("name", StrV("Img"))),
       RawNode(StrV("ETN_IntParameter"),
               In4("name", StrV("Steps"), "default", IntV(0, 20),
                   "min", IntV(0, 1), "max", IntV(0, 100))),
       RawNode(StrV("ETN_KritaMaskLayer"), In1("name", StrV("Mask"))),
       RawNode(StrV("KSampler"), In1("name", StrV("Steps"))) >>

\* another default for Steps, a parameter node without inputs and a node of another type
G_steps30 ==
    << RawNode(StrV("ETN_IntParameter"), In2("name", StrV("Steps"), "default", IntV(0, 30))),
       RawNode(StrV("ETN_IntParameter"), EmptyDict),
       RawNode(StrV("KSampler"), EmptyDict) >>

\* a str where an int is expected, and layer nodes without inputs
G_str ==
    << RawNode(StrV("ETN_IntParameter"), In2("name", StrV("Steps"), "default", StrV("five"))),
       RawNode(StrV("ETN_KritaImageLayer"), EmptyDict),
       RawNode(StrV("ETN_KritaMaskLayer"), EmptyDict) >>

\* two parameters of the same name
G_dup ==
    << RawNode(StrV("ETN_IntParameter"), In2("name", StrV("Steps"), "default", IntV(0, 20))),
       RawNode(StrV("ETN_KritaImageLayer"), In1("name", StrV("Steps"))) >>

\* not a graph-shaped document: a node without a class type
G_bad ==
    << RawNode(StrV("ETN_IntParameter"), In1("name", StrV("Steps"))),
       RawNode(NoneV, EmptyDict) >>

Graphs == {G_spec, G_steps30, G_str, G_dup, G_bad}

\* ComfyWorkflow.import_graph: [exc, value]; raises when the payload is malformed
WellFormed(payload) == \A i \in 1..Len(payload) : TypeOf(payload[i].class_type) = "str"

import_graph(payload) ==
    IF WellFormed(payload)
    THEN [exc |-> "",
          value |-> [i \in 1..Len(payload) |->
                        [type |-> payload[i].class_type.s, inputs |-> payload[i].inputs]]]
    ELSE [exc |-> "ParseError", value |-> <<>>]

\* ComfyNode.input(key, default)
NodeInput(node, key, default) ==
    IF key \in DOMAIN node.inputs THEN node.inputs[key] ELSE default

----------------------------------------------------------------------------
(* ParamKind, CustomParam, _gather_params *)

CustomParam(kind, name, default, min, max) ==
    [kind |-> kind, name |-> name, default |-> default, min |-> min, max |-> max]

INT_MIN == IntV(0 - 32768, 0)   \* -(2**31)
INT_MAX == IntV(32768, 0)       \* 2**31

\* mutant of ParamOfNode: the largest 32-bit int as the default of max
ParamOfNode_int32(node) ==
    CASE node.type = "ETN_KritaImageLayer" ->
            << CustomParam("image_layer", NodeInput(node, "name", StrV("Image")),
                           NoneV, NoneV, NoneV) >>
      [] node.type = "ETN_KritaMaskLayer" ->
            << CustomParam("mask_layer", NodeInput(node, "name", StrV("Mask")),
                           NoneV, NoneV, NoneV) >>
      [] node.type = "ETN_IntParameter" ->
            << CustomParam("number_int", NodeInput(node, "name", StrV("Parameter")),
                           NodeInput(node, "default", IntV(0, 0)),
                           NodeInput(node, "min", INT_MIN),
                           NodeInput(node, "max", IntV(32767, 65535))) >>
      [] OTHER -> <<>>

\* what one node yields: a list of zero or one CustomParam
ParamOfNode(node) ==
    CASE node.type = "ETN_KritaImageLayer" ->
            << CustomParam("image_layer", NodeInput(node, "name", StrV("Image")),
                           NoneV, NoneV, NoneV) >>
      [] node.type = "ETN_KritaMaskLayer" ->
            << CustomParam("mask_layer", NodeInput(node, "name", StrV("Mask")),
                           NoneV, NoneV, NoneV) >>
      [] node.type = "ETN_IntParameter" ->
            << CustomParam("number_int", NodeInput(node, "name", StrV("Parameter")),
                           NodeInput(node, "default", IntV(0, 0)),
                           NodeInput(node, "min", INT_MIN),
                           NodeInput(node, "max", INT_MAX)) >>
      [] OTHER -> <<>>

RECURSIVE gather_params(_)
gather_params(w) ==
    IF w = <<>> THEN <<>>
    ELSE ParamOfNode(Head(w)) \o gather_params(Tail(w))

----------------------------------------------------------------------------
(* _coerce *)

\* mutant of use: any value that is not None is kept
use_any_type(value, default) ==
    IF value = NoneV THEN default ELSE value

use(value, default) ==
    IF value = NoneV \/ ~(TypeOf(value) = TypeOf(default)) THEN default ELSE value

\* the dict comprehension: a later item of the same key replaces the earlier one
RECURSIVE coerce_from(_, _, _)
coerce_from(acc, prev, types) ==
    IF types = <<>> THEN acc
    ELSE LET t == Head(types)
             v == use(DictGet(prev, t.name), t.default)
         IN coerce_from([k \in DOMAIN acc \cup {t.name} |-> IF k = t.name THEN v ELSE acc[k]],
                        prev, Tail(types))

\* mutant of coerce: the new values are written into the prior dict
coerce_into_prior(prev, types) == coerce_from(prev, prev, types)

coerce(prev, types) == coerce_from(EmptyDict, prev, types)

----------------------------------------------------------------------------
(* WorkflowSource, CustomWorkflow *)

SourceValue(source) ==
    CASE source = "document" -> 0
      [] source = "remote" -> 1
      [] source = "local" -> 2

\* path is <<>> for None; the code never passes one
CustomWorkflow(id, source, g, path) == [id |-> id, source |-> source, graph |-> g, path |-> path]

\* CustomWorkflow.name
NameOf(wf) == RemoveSuffix(wf.id, S_dot_json)

\* SortedWorkflows.lessThan, given the two entries the indices refer to
lessThan(l, r) ==
    IF l.source = r.source
    THEN StrLess(NameOf(l), NameOf(r))
    ELSE SourceValue(l.source) < SourceValue(r.source)

----------------------------------------------------------------------------
(* The running program as one value, threaded through the nested calls.    *)
(* exc is the exception in flight ("" if none, "abort" when the process    *)
(* was ended by Qt); a statement that follows a raising one does not run.  *)

Ev(sig, row, id, name) == [sig |-> sig, row |-> row, id |-> id, name |-> name]

Emit(w, e) == [w EXCEPT !.events = Append(@, e)]

\* a step of the control flow: a slot or a resolution is entered or left
Mark(w, mark, id) == [w EXCEPT !.trace = Append(@, [mark |-> mark, id |-> id])]

\* QModelIndex: the invalid index has row -1
QModelIndex(row) == [valid |-> row >= 0, row |-> row]
InvalidIndex == QModelIndex(0 - 1)

\* WorkflowCollection.find_index
find_index(ws, id) ==
    LET hits == {i \in 1..Len(ws) : ws[i].id = id}
    IN IF hits = {} THEN InvalidIndex
       ELSE QModelIndex((CHOOSE i \in hits : \A j \in hits : i <= j) - 1)

\* WorkflowCollection.find: <<>> for None, else <<position in the list>>
find(ws, id) ==
    LET idx == find_index(ws, id)
    IN IF idx.valid THEN <<idx.row + 1>> ELSE <<>>

\* WorkflowCollection.__getitem__, a Python list subscript: [exc, pos],
\* a negative row counts from the end of the list
GetItem(ws, row) ==
    IF row >= 0 /\ row < Len(ws) THEN [exc |-> "", pos |-> row + 1]
    ELSE IF row < 0 /\ 0 - row <= Len(ws) THEN [exc |-> "", pos |-> Len(ws) + row + 1]
    ELSE [exc |-> "IndexError", pos |-> 0]

\* Property.__set__ of params (no setter, persist=True)
SetParams(w, value) ==
    IF w.params = value THEN w
    ELSE Emit(Emit([w EXCEPT !.params = value],
                   Ev("params_changed", 0 - 1, <<>>, "")),
              Ev("modified", 0 - 1, <<>>, "params"))

\* mutant of update_workflow: the changed entry is resolved whatever its id
update_workflow_any_id(w, row) ==
    LET item == GetItem(w.workflows, row)
    IN IF item.exc # "" THEN [w EXCEPT !.exc = item.exc]
       ELSE LET wf == w.workflows[item.pos]
                w1 == [Mark(w, "resolve_begin", wf.id) EXCEPT !.workflow = <<item.pos>>]
                g == import_graph(wf.graph)
            IN IF g.exc # "" THEN [Mark(w1, "resolve_raise", wf.id) EXCEPT !.exc = g.exc]
               ELSE LET md == gather_params(g.value)
                        w2 == [w1 EXCEPT !.graph = <<g.value>>, !.metadata = md]
                        w3 == SetParams(w2, coerce(w2.params, md))
                    IN Mark(Emit(w3, Ev("graph_changed", 0 - 1, <<>>, "")),
                            "resolve_end", wf.id)

\* CustomWorkspace._update_workflow(idx, _), given idx.row()
update_workflow(w, row) ==
    LET item == GetItem(w.workflows, row)
    IN IF item.exc # "" THEN [w EXCEPT !.exc = item.exc]
       ELSE LET wf == w.workflows[item.pos]
            IN IF wf.id # w.workflow_id THEN w
               ELSE LET w1 == [Mark(w, "resolve_begin", wf.id) EXCEPT !.workflow = <<item.pos>>]
                        g == import_graph(wf.graph)
                    IN IF g.exc # "" THEN [Mark(w1, "resolve_raise", wf.id) EXCEPT !.exc = g.exc]
                       ELSE LET md == gather_params(g.value)
                                w2 == [w1 EXCEPT !.graph = <<g.value>>, !.metadata = md]
                                w3 == SetParams(w2, coerce(w2.params, md))
                            IN Mark(Emit(w3, Ev("graph_changed", 0 - 1, <<>>, "")),
                                    "resolve_end", wf.id)

\* mutant of set_workflow_id: the workflow is resolved before the id is announced
set_workflow_id_resolve_first(w, id) ==
    IF w.workflow_id = id THEN w
    ELSE LET w1 == update_workflow([w EXCEPT !.workflow_id = id], find_index(w.workflows, id).row)
         IN IF w1.exc # "" THEN w1
            ELSE Emit(Emit(w1, Ev("workflow_id_changed", 0 - 1, id, "")),
                      Ev("modified", 0 - 1, <<>>, "workflow_id"))

\* mutant of set_workflow_id: the id is not compared with the current one
set_workflow_id_no_guard(w, id) ==
    LET w1 == [w EXCEPT !.workflow_id = id]
        w2 == Emit(w1, Ev("workflow_id_changed", 0 - 1, id, ""))
        w3 == Emit(w2, Ev("modified", 0 - 1, <<>>, "workflow_id"))
    IN update_workflow(w3, find_index(w3.workflows, id).row)

\* CustomWorkspace._set_workflow_id
set_workflow_id(w, id) ==
    IF w.workflow_id = id THEN w
    ELSE LET w1 == [w EXCEPT !.workflow_id = id]
             w2 == Emit(w1, Ev("workflow_id_changed", 0 - 1, id, ""))
             w3 == Emit(w2, Ev("modified", 0 - 1, <<>>, "workflow_id"))
         IN update_workflow(w3, find_index(w3.workflows, id).row)

\* mutant of set_default_workflow: a default is picked from the second entry on
set_default_workflow_late(w) ==
    IF w.workflow_id = <<>> /\ Len(w.workflows) > 1
    THEN set_workflow_id(w, w.workflows[1].id)
    ELSE w

\* mutant of set_default_workflow: the default is the last entry
set_default_workflow_last(w) ==
    IF w.workflow_id = <<>> /\ Len(w.workflows) > 0
    THEN set_workflow_id(w, w.workflows[Len(w.workflows)].id)
    ELSE w

\* CustomWorkspace._set_default_workflow
set_default_workflow(w) ==
    IF w.workflow_id = <<>> /\ Len(w.workflows) > 0
    THEN set_workflow_id(w, w.workflows[1].id)
    ELSE w

\* A slot run by a Qt signal.  An exception it raises never reaches the code
\* that emitted the signal: PyQt hands it to sys.excepthook and goes on when a
\* hook is installed, and ends the process otherwise.
SlotReturn(r, hook) ==
    IF r.exc = "" THEN Mark(r, "slot_end", <<>>)
    ELSE IF hook THEN Mark([r EXCEPT !.slot_exc = r.exc, !.exc = ""], "slot_end", <<>>)
    ELSE [r EXCEPT !.slot_exc = r.exc, !.exc = "abort"]

\* Qt calls a connected slot
SlotEnter(w) == Mark(w, "slot_begin", <<>>)

\* mutant of append: the item is inserted at the front of the list
append_front(w, item, hook) ==
    LET end == Len(w.workflows)
        w1 == [w EXCEPT !.workflows = <<item>> \o @]
        w2 == Emit(w1, Ev("rowsInserted", end, <<>>, ""))
    IN IF w2.connected THEN SlotReturn(set_default_workflow(SlotEnter(w2)), hook) ELSE w2

\* WorkflowCollection.append; rowsInserted runs _set_default_workflow
append(w, item, hook) ==
    LET end == Len(w.workflows)
        w1 == [w EXCEPT !.workflows = Append(@, item)]
        w2 == Emit(w1, Ev("rowsInserted", end, <<>>, ""))
    IN IF w2.connected THEN SlotReturn(set_default_workflow(SlotEnter(w2)), hook) ELSE w2

\* mutant of collection_set_graph: the graph is replaced without dataChanged
collection_set_graph_silent(w, row, g, hook) ==
    [w EXCEPT !.workflows[row + 1].graph = g]

\* WorkflowCollection.set_graph; dataChanged runs _update_workflow
collection_set_graph(w, row, g, hook) ==
    LET w1 == [w EXCEPT !.workflows[row + 1].graph = g]
        w2 == Emit(w1, Ev("dataChanged", row, <<>>, ""))
    IN IF w2.connected THEN SlotReturn(update_workflow(SlotEnter(w2), row), hook) ELSE w2

\* mutant of process: the arriving workflow replaces the entry of its id
process_replace(w, item, hook) ==
    LET idx == find_index(w.workflows, item.id)
    IN IF idx.valid
       THEN LET w1 == [w EXCEPT !.workflows[idx.row + 1] = item]
                w2 == Emit(w1, Ev("dataChanged", idx.row, <<>>, ""))
            IN IF w2.connected THEN SlotReturn(update_workflow(SlotEnter(w2), idx.row), hook) ELSE w2
       ELSE append(w, item, hook)

\* WorkflowCollection._process
process(w, item, hook) ==
    LET idx == find_index(w.workflows, item.id)
    IN IF idx.valid THEN collection_set_graph(w, idx.row, item.graph, hook)
       ELSE append(w, item, hook)

\* WorkflowCollection._process_remote_workflow, g being connection.workflows[id]
process_remote_workflow(w, id, g, hook) ==
    process(w, CustomWorkflow(id, "remote", g, <<>>), hook)

\* mutant of workspace_set_graph: the entry is added without looking for the id
workspace_set_graph_always_append(w, id, g, hook) ==
    LET w1 == append(w, CustomWorkflow(id, "document", g, <<>>), hook)
    IN IF w1.exc # "" THEN w1 ELSE set_workflow_id(w1, id)

\* CustomWorkspace.set_graph
workspace_set_graph(w, id, g, hook) ==
    LET w1 == IF find(w.workflows, id) = <<>>
              THEN append(w, CustomWorkflow(id, "document", g, <<>>), hook)
              ELSE w
    IN IF w1.exc # "" THEN w1 ELSE set_workflow_id(w1, id)

----------------------------------------------------------------------------
(* WorkflowCollection.__init__ *)

\* a directory entry: its file name and <<payload>>, or <<>> when the file
\* cannot be read or deserialized
File(name, content) == [name |-> name, content |-> content]

\* Path.glob("*.json")
Glob(dir) == SelectSeq(dir, LAMBDA f : EndsWith(f.name, S_dot_json))

\* mutant of load_files: the first file that cannot be loaded ends the loop
RECURSIVE load_files_abort(_, _)
load_files_abort(w, files) ==
    IF files = <<>> THEN w
    ELSE LET f == Head(files)
         IN IF f.content = <<>>
            THEN [w EXCEPT !.log = Append(@, f.name)]
            ELSE load_files_abort(
                    process(w, CustomWorkflow(Stem(f.name), "local", f.content[1], <<>>), TRUE),
                    Tail(files))

\* one turn of the loop over the files: _process_file under try/except
RECURSIVE load_files(_, _)
load_files(w, files) ==
    IF files = <<>> THEN w
    ELSE LET f == Head(files)
             w1 == IF f.content = <<>>
                   THEN [w EXCEPT !.log = Append(@, f.name)]
                   ELSE process(w, CustomWorkflow(Stem(f.name), "local", f.content[1], <<>>), TRUE)
         IN load_files(w1, Tail(files))

\* the loop over connection.workflows.keys()
RECURSIVE load_remote(_, _)
load_remote(w, snapshot) ==
    IF snapshot = <<>> THEN w
    ELSE load_remote(process_remote_workflow(w, Head(snapshot).id, Head(snapshot).graph, TRUE),
                     Tail(snapshot))

\* mutant of collection_init: the snapshot is ingested before the files
collection_init_remote_first(w, dir, snapshot) ==
    load_files(load_remote(w, snapshot), Glob(dir))

collection_init(w, dir, snapshot) == load_remote(load_files(w, Glob(dir)), snapshot)

----------------------------------------------------------------------------
(* Inputs *)

Ids == {S_a, S_B, S_b_json}
SelectIds == Ids \cup {S_empty}
FileNames == {S_a_json, S_B_json, S_a_txt}
LoadGraphs == {G_spec, G_bad}

Distinct(seq, Key(_)) == \A i, j \in 1..Len(seq) : i # j => Key(seq[i]) # Key(seq[j])

FileEntries == {File(n, c) : n \in FileNames, c \in {<<>>} \cup {<<g>> : g \in LoadGraphs}}
Dirs == {d \in UNION {[1..n -> FileEntries] : n \in 0..MaxFiles} :
            Distinct(d, LAMBDA f : f.name)}

RemoteEntries == {[id |-> i, graph |-> g] : i \in Ids, g \in LoadGraphs}
Snapshots == {sn \in UNION {[1..n -> RemoteEntries] : n \in 0..MaxRemote} :
                 Distinct(sn, LAMBDA e : e.id)}

----------------------------------------------------------------------------
(* State machine *)

World(connected) ==
    [workflows |-> workflows, log |-> log, workflow_id |-> workflow_id,
     workflow |-> workflow, graph |-> graph, metadata |-> metadata, params |-> params,
     events |-> <<>>, exc |-> "", slot_exc |-> "", trace |-> <<>>, connected |-> connected]

Call(op, id, g, dir, snapshot) ==
    [op |-> op, id |-> id, graph |-> g, dir |-> dir, snapshot |-> snapshot,
     existed |-> find(workflows, id) # <<>>, prev_id |-> workflow_id]

\* the state a call leaves behind
Return(w, c, next_phase) ==
    /\ workflows' = w.workflows
    /\ log' = w.log
    /\ workflow_id' = w.workflow_id
    /\ workflow' = w.workflow
    /\ graph' = w.graph
    /\ metadata' = w.metadata
    /\ params' = w.params
    /\ events' = w.events
    /\ call' = c
    /\ raised' = IF w.exc = "abort" THEN "" ELSE w.exc
    /\ slot_exc' = w.slot_exc
    /\ trace' = w.trace
    /\ phase' = IF w.exc = "abort" THEN "aborted" ELSE next_phase

Init ==
    /\ workflows = <<>>
    /\ log = <<>>
    /\ phase = "new"
    /\ workflow_id = <<>>
    /\ workflow = <<>>
    /\ graph = <<>>
    /\ metadata = <<>>
    /\ params = EmptyDict
    /\ events = <<>>
    /\ call = [op |-> "none", id |-> <<>>, graph |-> <<>>, dir |-> <<>>, snapshot |-> <<>>,
               existed |-> FALSE, prev_id |-> <<>>]
    /\ raised = ""
    /\ slot_exc = ""
    /\ trace = <<>>
    /\ ncalls = 0

\* WorkflowCollection(connection, folder)
LoadInitial ==
    /\ phase = "new"
    /\ \E dir \in Dirs, snapshot \in Snapshots :
          Return(collection_init(World(FALSE), dir, snapshot),
                 Call("load_initial", <<>>, <<>>, dir, snapshot), "loaded")
    /\ UNCHANGED ncalls

\* CustomWorkspace(workflows): an exception leaves no workspace behind
NewWorkspace ==
    /\ phase = "loaded"
    /\ LET w == set_default_workflow(World(TRUE))
       IN Return(w, Call("new_workspace", <<>>, <<>>, <<>>, <<>>),
                 IF w.exc = "" THEN "run" ELSE "failed")
    /\ UNCHANGED ncalls

\* the connection publishes workflow id with payload g
IngestRemote ==
    /\ phase = "run"
    /\ ncalls < MaxCalls
    /\ \E id \in Ids, g \in Graphs, hook \in BOOLEAN :
          Return(process_remote_workflow(World(TRUE), id, g, hook),
                 Call("ingest_remote", id, g, <<>>, <<>>), "run")
    /\ ncalls' = ncalls + 1

\* workspace.workflow_id = id
Select ==
    /\ phase = "run"
    /\ ncalls < MaxCalls
    /\ \E id \in SelectIds :
          Return(set_workflow_id(World(TRUE), id), Call("select", id, <<>>, <<>>, <<>>), "run")
    /\ ncalls' = ncalls + 1

\* workspace.set_graph(id, g)
BindDocumentGraph ==
    /\ phase = "run"
    /\ ncalls < MaxCalls
    /\ \E id \in Ids, g \in Graphs, hook \in BOOLEAN :
          Return(workspace_set_graph(World(TRUE), id, g, hook),
                 Call("bind_document_graph", id, g, <<>>, <<>>), "run")
    /\ ncalls' = ncalls + 1

Next == LoadInitial \/ NewWorkspace \/ IngestRemote \/ Select \/ BindDocumentGraph

Spec == Init /\ [][Next]_vars

----------------------------------------------------------------------------
(* Helpers of the properties *)

IsCollectionSignal(e) == e.sig \in {"rowsInserted", "dataChanged"}
CollectionEvents(evs) == SelectSeq(evs, IsCollectionSignal)
CountSig(evs, sig) == Len(SelectSeq(evs, LAMBDA e : e.sig = sig))

NoDuplicateIds(ws) == \A i, j \in 1..Len(ws) : ws[i].id = ws[j].id => i = j

\* an upsert of the running system that finds its id in the collection
UpdatesInPlace(c) == c.op = "ingest_remote" /\ c.existed

----------------------------------------------------------------------------
(* C1: the collection never holds two entries of one id, never gets        *)
(* shorter, and an entry never changes its position: every call leaves the *)
(* ids at the positions they had and adds new ids at the end.              *)

C1_UniqueIdsStablePositions ==
    [][ /\ NoDuplicateIds(workflows)
        /\ NoDuplicateIds(workflows')
        /\ Len(workflows') >= Len(workflows)
        /\ \A i \in 1..Len(workflows) : workflows'[i].id = workflows[i].id ]_vars

\* an update in place and appended entries have both happened
C1_Witness ==
    /\ Len(workflows) = 3
    /\ UpdatesInPlace(call)
    /\ workflows[1].id = call.id
    /\ workflows[1].graph = call.graph

(* C2: an upsert of an id the collection holds replaces the graph of that  *)
(* entry and nothing else: its id, origin and path stay, and so does every *)
(* other entry.                                                            *)

C2_UpdateReplacesOnlyGraph ==
    [][ UpdatesInPlace(call') =>
          LET p == find(workflows, call'.id)[1]
          IN /\ Len(workflows') = Len(workflows)
             /\ workflows'[p] = [workflows[p] EXCEPT !.graph = call'.graph]
             /\ \A i \in 1..Len(workflows) : i # p => workflows'[i] = workflows[i] ]_vars

\* a remote graph has arrived for an entry registered from a local file
C2_Witness ==
    /\ UpdatesInPlace(call)
    /\ Len(workflows) >= 2
    /\ \E p \in 1..Len(workflows) :
          /\ workflows[p].id = call.id
          /\ workflows[p].source = "local"
          /\ workflows[p].graph = call.graph
          /\ call.graph = G_str

(* C3: lessThan orders two entries by origin value and, within one origin, *)
(* by name compared without regard to letter case.                         *)

Lower(c) == IF c >= 65 /\ c <= 90 THEN c + 32 ELSE c
LowerStr(str) == [i \in 1..Len(str) |-> Lower(str[i])]

\* the comparator the specification describes
CaseInsensitiveLess(l, r) ==
    \/ SourceValue(l.source) < SourceValue(r.source)
    \/ /\ l.source = r.source
       /\ StrLess(LowerStr(NameOf(l)), LowerStr(NameOf(r)))

C3_LessThanIgnoresCase ==
    \A i, j \in 1..Len(workflows) :
        lessThan(workflows[i], workflows[j]) <=> CaseInsensitiveLess(workflows[i], workflows[j])

(* C4 as stated: after a coercion the keys of params are the names the     *)
(* schema declares, and every descriptor finds under its name the prior    *)
(* value when that is present and of the type of its default, and its      *)
(* default otherwise.                                                      *)

Names(types) == {types[i].name : i \in 1..Len(types)}

\* the call resolved the active workflow exactly once
ResolvedOnce(evs) == CountSig(evs, "graph_changed") = 1

\* the value the claim gives descriptor d, prior being the params before
CoercedValue(prior, d) ==
    IF d.name \in DOMAIN prior /\ TypeOf(prior[d.name]) = TypeOf(d.default)
    THEN prior[d.name]
    ELSE d.default

C4_EveryDescriptorCoerced ==
    [][ ResolvedOnce(events') =>
          /\ DOMAIN params' = Names(metadata')
          /\ \A i \in 1..Len(metadata') :
                params'[metadata'[i].name] = CoercedValue(params, metadata'[i]) ]_vars

(* C4, amended: the same, where of several descriptors of one name the     *)
(* last one of the schema decides the value.                               *)

LastOfName(types, i) == \A j \in 1..Len(types) : types[j].name = types[i].name => j <= i

C4_LastDescriptorCoerced ==
    [][ ResolvedOnce(events') =>
          /\ DOMAIN params' = Names(metadata')
          /\ \A i \in 1..Len(metadata') :
                LastOfName(metadata', i) =>
                    params'[metadata'[i].name] = CoercedValue(params, metadata'[i]) ]_vars

\* a coercion kept a prior value that is not the default and dropped the
\* keys the new schema does not declare
C4_Witness ==
    /\ ResolvedOnce(events)
    /\ graph = <<import_graph(G_steps30).value>>
    /\ params[StrV("Steps")] = IntV(0, 20)
    /\ DOMAIN params = {StrV("Steps"), StrV("Parameter")}

(* C5: the metadata of a resolved graph holds one descriptor for each node *)
(* of type ETN_KritaImageLayer, ETN_KritaMaskLayer or ETN_IntParameter and *)
(* none for another node, in the order of the nodes; the name is the       *)
(* node's "name" input or Image / Mask / Parameter, and an integer         *)
(* parameter takes default, min and max from the inputs or 0, -2^31, 2^31. *)

Recognized(node) ==
    node.type \in {"ETN_KritaImageLayer", "ETN_KritaMaskLayer", "ETN_IntParameter"}

\* how many recognized nodes the first i nodes of g hold
Rank(g, i) == Cardinality({j \in 1..i : Recognized(g[j])})

InputOr(node, key, default) ==
    IF key \in DOMAIN node.inputs THEN node.inputs[key] ELSE default

ExpectedParam(node) ==
    IF node.type = "ETN_KritaImageLayer"
    THEN [kind |-> "image_layer", name |-> InputOr(node, "name", StrV("Image")),
          default |-> NoneV, min |-> NoneV, max |-> NoneV]
    ELSE IF node.type = "ETN_KritaMaskLayer"
    THEN [kind |-> "mask_layer", name |-> InputOr(node, "name", StrV("Mask")),
          default |-> NoneV, min |-> NoneV, max |-> NoneV]
    ELSE [kind |-> "number_int", name |-> InputOr(node, "name", StrV("Parameter")),
          default |-> InputOr(node, "default", IntV(0, 0)),
          min |-> InputOr(node, "min", IntV(0 - 32768, 0)),
          max |-> InputOr(node, "max", IntV(32768, 0))]

C5_OneDescriptorPerRecognizedNode ==
    graph # <<>> =>
        LET g == graph[1]
        IN /\ Len(metadata) = Rank(g, Len(g))
           /\ \A i \in 1..Len(g) :
                 Recognized(g[i]) => metadata[Rank(g, i)] = ExpectedParam(g[i])

\* a graph with a named and an unnamed parameter node and a node of another type
C5_Witness ==
    /\ graph = <<import_graph(G_steps30).value>>
    /\ Len(graph[1]) = 3
    /\ Len(metadata) = 2
    /\ metadata[2].name = StrV("Parameter")
    /\ metadata[2].max = IntV(32768, 0)

(* C6: a select of an id the collection does not hold completes without an *)
(* error, sets workflow_id and leaves no active workflow.                  *)

C6_SelectUnknownIdLeavesNothingActive ==
    (phase = "run" /\ call.op = "select" /\ ~call.existed) =>
        /\ raised = ""
        /\ workflow_id = call.id
        /\ workflow = <<>>

(* C7 as stated: an update in place of the entry that workflow_id names    *)
(* makes that entry the active workflow, its parsed graph the active       *)
(* graph, metadata the extraction of that graph and params the coercion of *)
(* the params before, and emits graph_changed once; an update of another   *)
(* entry leaves graph, metadata and params alone and emits no              *)
(* graph_changed.                                                          *)

ResolvedTo(payload) ==
    /\ workflow' = find(workflows', workflow_id')
    /\ graph' = <<import_graph(payload).value>>
    /\ metadata' = gather_params(import_graph(payload).value)
    /\ params' = coerce(params, metadata')
    /\ CountSig(events', "graph_changed") = 1

NotResolved ==
    /\ graph' = graph
    /\ metadata' = metadata
    /\ params' = params
    /\ CountSig(events', "graph_changed") = 0

C7_UpdateOfSelectedResolves ==
    [][ (UpdatesInPlace(call') /\ phase' = "run") =>
          IF call'.id = workflow_id
          THEN workflow_id' = workflow_id /\ ResolvedTo(call'.graph)
          ELSE NotResolved ]_vars

(* C7, amended: the same when the new graph is well formed; when it is     *)
(* malformed the entry becomes the active workflow while graph, metadata   *)
(* and params keep their values and no graph_changed is emitted.           *)

C7_WellFormedUpdateOfSelectedResolves ==
    [][ (UpdatesInPlace(call') /\ phase' = "run") =>
          IF call'.id = workflow_id
          THEN /\ workflow_id' = workflow_id
               /\ IF WellFormed(call'.graph)
                  THEN ResolvedTo(call'.graph)
                  ELSE workflow' = find(workflows', workflow_id') /\ NotResolved
          ELSE workflow' = workflow /\ NotResolved ]_vars

\* the selected entry was updated and resolved again, with a value kept
C7_Witness ==
    /\ phase = "run"
    /\ UpdatesInPlace(call)
    /\ call.id = workflow_id
    /\ call.graph = G_steps30
    /\ graph = <<import_graph(G_steps30).value>>
    /\ params[StrV("Steps")] = IntV(0, 20)
    /\ CountSig(events, "graph_changed") = 1

(* C8: when the first entry enters an empty collection while workflow_id   *)
(* is empty, the workspace selects it: workflow_id is its id and it is the *)
(* active workflow.                                                        *)

C8_FirstEntryIsSelected ==
    [][ (phase = "run" /\ workflows = <<>> /\ workflow_id = <<>> /\ Len(workflows') > 0) =>
          /\ Len(workflows') = 1
          /\ workflow_id' = workflows'[1].id
          /\ workflow' = <<1>> ]_vars

\* a published workflow was the first entry and got selected
C8_Witness ==
    /\ call.op = "ingest_remote"
    /\ ~call.existed
    /\ call.prev_id = <<>>
    /\ Len(workflows) = 1
    /\ workflow_id = call.id
    /\ workflow = <<1>>

(* C9: an upsert emits one notification of the collection: dataChanged     *)
(* with the row of the entry for an id the collection holds, rowsInserted  *)
(* with the new last row for a new id; bind_document_graph emits           *)
(* rowsInserted when it adds the entry and nothing otherwise; loading      *)
(* emits one notification for each file read and each snapshot entry; and  *)
(* no call changes the collection without a notification.                  *)

Readable(dir) == SelectSeq(Glob(dir), LAMBDA f : f.content # <<>>)

C9_OneNotificationPerUpsert ==
    [][ LET cev == CollectionEvents(events')
            c == call'
        IN /\ c.op = "ingest_remote" =>
                 cev = IF c.existed
                       THEN <<Ev("dataChanged", find(workflows, c.id)[1] - 1, <<>>, "")>>
                       ELSE <<Ev("rowsInserted", Len(workflows') - 1, <<>>, "")>>
           /\ c.op = "bind_document_graph" =>
                 cev = IF c.existed
                       THEN <<>>
                       ELSE <<Ev("rowsInserted", Len(workflows') - 1, <<>>, "")>>
           /\ c.op = "load_initial" => Len(cev) = Len(Readable(c.dir)) + Len(c.snapshot)
           /\ workflows' # workflows => cev # <<>> ]_vars

\* an update of the second entry was notified with row 1
C9_Witness ==
    /\ UpdatesInPlace(call)
    /\ Len(workflows) >= 2
    /\ workflows[2].id = call.id
    /\ CollectionEvents(events) = <<Ev("dataChanged", 1, <<>>, "")>>

(* C10: bind_document_graph(id, graph) appends one entry of origin         *)
(* document with the given graph when the collection holds no entry of     *)
(* that id and adds no entry when it holds one; when the call is over      *)
(* (returned or raised) workflow_id is id.                                 *)

C10_BindAddsAtMostOneAndSelects ==
    [][ call'.op = "bind_document_graph" =>
          /\ workflows' = IF call'.existed
                          THEN workflows
                          ELSE Append(workflows,
                                      [id |-> call'.id, source |-> "document",
                                       graph |-> call'.graph, path |-> <<>>])
          /\ phase' = "run" => workflow_id' = call'.id ]_vars

\* a document workflow was added behind other entries and selected
C10_Witness ==
    /\ phase = "run"
    /\ call.op = "bind_document_graph"
    /\ ~call.existed
    /\ call.prev_id # <<>>
    /\ Len(workflows) >= 2
    /\ workflows[Len(workflows)].source = "document"
    /\ workflow_id = call.id

(* C11: after bind_document_graph(id, graph) the entry of that id holds    *)
(* the passed graph, and the active graph and the metadata are derived     *)
(* from the passed graph, whether or not the entry existed before.         *)

EntryOf(id) == workflows[find(workflows, id)[1]]

C11_BindStoresAndActivatesGraph ==
    (phase = "run" /\ call.op = "bind_document_graph") =>
        /\ find(workflows, call.id) # <<>>
        /\ EntryOf(call.id).graph = call.graph
        /\ WellFormed(call.graph) =>
              /\ graph = <<import_graph(call.graph).value>>
              /\ metadata = gather_params(import_graph(call.graph).value)

(* C12: a file that cannot be read or deserialized is reported and         *)
(* skipped: loading does not fail, every readable file and every snapshot  *)
(* entry has its entry in the collection, and the skipped file has none.   *)

Unreadable(dir) == SelectSeq(Glob(dir), LAMBDA f : f.content = <<>>)
SnapshotIds(snapshot) == {snapshot[i].id : i \in 1..Len(snapshot)}

C12_CorruptFileIsSkipped ==
    call.op = "load_initial" =>
        LET readable == Readable(call.dir)
            unreadable == Unreadable(call.dir)
        IN /\ phase = "loaded"
           /\ raised = ""
           /\ log = [i \in 1..Len(unreadable) |-> unreadable[i].name]
           /\ \A i \in 1..Len(readable) :
                 /\ find(workflows, Stem(readable[i].name)) # <<>>
                 /\ EntryOf(Stem(readable[i].name)).source = "local"
           /\ \A i \in 1..Len(call.snapshot) :
                 /\ find(workflows, call.snapshot[i].id) # <<>>
                 /\ EntryOf(call.snapshot[i].id).graph = call.snapshot[i].graph
           /\ \A i \in 1..Len(unreadable) :
                 Stem(unreadable[i].name) \notin SnapshotIds(call.snapshot) =>
                     find(workflows, Stem(unreadable[i].name)) = <<>>

\* a corrupt file came first, a readable file and a snapshot entry were loaded
C12_Witness ==
    /\ call.op = "load_initial"
    /\ Len(Glob(call.dir)) = 2
    /\ Glob(call.dir)[1].content = <<>>
    /\ Glob(call.dir)[2].content # <<>>
    /\ Len(call.snapshot) = 1
    /\ call.snapshot[1].id = S_b_json
    /\ Len(log) = 1
    /\ Len(workflows) = 2

(* C13: loading puts the readable local files first, in the order of the   *)
(* directory listing, and after them the snapshot entries whose id no      *)
(* file has, in the order of the snapshot; an id that a file and the       *)
(* snapshot share has one entry, at the position of the file, with the     *)
(* graph of the snapshot.                                                  *)

SnapshotGraph(snapshot, id) ==
    snapshot[CHOOSE i \in 1..Len(snapshot) : snapshot[i].id = id].graph

ExpectedAfterLoad(dir, snapshot) ==
    LET files == Readable(dir)
        stems == {Stem(files[i].name) : i \in 1..Len(files)}
        localPart == [i \in 1..Len(files) |->
                        [id |-> Stem(files[i].name),
                         source |-> "local",
                         graph |-> IF Stem(files[i].name) \in SnapshotIds(snapshot)
                                   THEN SnapshotGraph(snapshot, Stem(files[i].name))
                                   ELSE files[i].content[1],
                         path |-> <<>>]]
        remoteOnly == SelectSeq(snapshot, LAMBDA e : e.id \notin stems)
        remotePart == [i \in 1..Len(remoteOnly) |->
                         [id |-> remoteOnly[i].id, source |-> "remote",
                          graph |-> remoteOnly[i].graph, path |-> <<>>]]
    IN localPart \o remotePart

C13_LocalFirstThenRemote ==
    call.op = "load_initial" => workflows = ExpectedAfterLoad(call.dir, call.snapshot)

\* the snapshot held another graph for the id of the second of two files
C13_Witness ==
    /\ call.op = "load_initial"
    /\ Len(Readable(call.dir)) = 2
    /\ Len(call.snapshot) = 1
    /\ Len(workflows) = 2
    /\ workflows[2].id = call.snapshot[1].id
    /\ workflows[2].source = "local"
    /\ workflows[2].graph = call.snapshot[1].graph
    /\ Readable(call.dir)[2].content[1] # call.snapshot[1].graph

(* C14: when a call asks for the resolution of an entry whose graph is     *)
(* malformed (a select of it, or an upsert that updates the selected       *)
(* entry), the ParseError reaches the caller of that call, and the entry   *)
(* is the active workflow afterwards.                                      *)

ResolutionRequested(c) ==
    \/ c.op = "select" /\ c.existed /\ c.id # c.prev_id
    \/ UpdatesInPlace(c) /\ c.id = c.prev_id

C14_ParseErrorReachesCaller ==
    (phase = "run" /\ ResolutionRequested(call) /\ ~WellFormed(EntryOf(call.id).graph)) =>
        /\ raised = "ParseError"
        /\ workflow = find(workflows, call.id)

(* C15: a select of the current workflow_id emits nothing and changes      *)
(* nothing; a select of another id sets workflow_id, emits                 *)
(* workflow_id_changed once, as the first signal of the call, and          *)
(* graph_changed, if at all, after it.                                     *)

C15_SelectSameIdIsNoOp ==
    [][ call'.op = "select" =>
          IF call'.id = workflow_id
          THEN /\ events' = <<>>
               /\ raised' = ""
               /\ UNCHANGED <<workflows, workflow_id, workflow, graph, metadata, params>>
          ELSE /\ workflow_id' = call'.id
               /\ CountSig(events', "workflow_id_changed") = 1
               /\ events'[1] = Ev("workflow_id_changed", 0 - 1, call'.id, "")
               /\ CountSig(events', "graph_changed") <= 1 ]_vars

\* another entry was selected and resolved: id changed, then graph changed
C15_Witness ==
    /\ call.op = "select"
    /\ call.existed
    /\ call.id # call.prev_id
    /\ call.prev_id # <<>>
    /\ events[1].sig = "workflow_id_changed"
    /\ events[Len(events)].sig = "graph_changed"

(* C16 as stated: an insertion changes the selection only when workflow_id *)
(* is empty and the collection was empty, and then selects the inserted    *)
(* entry; otherwise workflow_id and the active workflow stay.              *)

InsertsByUpsert(c) == c.op = "ingest_remote" /\ ~c.existed

C16_DefaultOnlyForFirstEntry ==
    [][ (InsertsByUpsert(call') /\ phase = "run") =>
          IF workflow_id = <<>> /\ workflows = <<>>
          THEN workflow_id' = call'.id /\ workflow' = find(workflows', call'.id)
          ELSE workflow_id' = workflow_id /\ workflow' = workflow ]_vars

(* C16, amended: an insertion changes the selection only when workflow_id  *)
(* is empty, and then selects the first entry of the collection, which is  *)
(* the inserted one when the collection was empty; when workflow_id is not *)
(* empty, workflow_id and the active workflow stay.                        *)

C16_DefaultIsFirstEntry ==
    [][ (InsertsByUpsert(call') /\ phase = "run") =>
          IF workflow_id = <<>>
          THEN workflow_id' = workflows'[1].id /\ workflow' = <<1>>
          ELSE workflow_id' = workflow_id /\ workflow' = workflow ]_vars

\* nothing was selected, an entry was inserted behind others, the first got selected
C16_Witness ==
    /\ InsertsByUpsert(call)
    /\ call.prev_id = <<>>
    /\ Len(workflows) >= 2
    /\ workflow_id = workflows[1].id
    /\ workflow_id # call.id
    /\ workflow = <<1>>

(* C17: the reaction to one notification of the collection is over before *)
(* another one is reacted to: no slot is entered while a slot or a         *)
(* resolution is running, no resolution starts inside another one, and a   *)
(* call that inserts a new id resolves the workflow that is selected at    *)
(* its end at most once.                                                   *)

CountMark(tr, k, marks) == Cardinality({i \in 1..k : tr[i].mark \in marks})
OpenSlots(tr, k) == CountMark(tr, k, {"slot_begin"}) - CountMark(tr, k, {"slot_end"})
OpenResolutions(tr, k) ==
    CountMark(tr, k, {"resolve_begin"}) - CountMark(tr, k, {"resolve_end", "resolve_raise"})
ResolutionsOf(tr, id) ==
    Cardinality({i \in 1..Len(tr) : tr[i].mark = "resolve_begin" /\ tr[i].id = id})

C17_ReactionsDoNotOverlap ==
    /\ \A k \in 1..Len(trace) :
          /\ trace[k].mark = "slot_begin" =>
                OpenSlots(trace, k - 1) = 0 /\ OpenResolutions(trace, k - 1) = 0
          /\ trace[k].mark = "resolve_begin" => OpenResolutions(trace, k - 1) = 0
    /\ (call.op \in {"ingest_remote", "bind_document_graph"} /\ ~call.existed) =>
          ResolutionsOf(trace, workflow_id) <= 1

\* one call ran a resolution of the default inside the slot and, after the
\* slot, a resolution of the workflow it selected
C17_Witness ==
    /\ phase = "run"
    /\ call.op = "bind_document_graph"
    /\ ~call.existed
    /\ Len(trace) = 6
    /\ trace[1].mark = "slot_begin"
    /\ trace[2].mark = "resolve_begin"
    /\ trace[4].mark = "slot_end"
    /\ trace[5] = [mark |-> "resolve_begin", id |-> workflow_id]
    /\ trace[6].mark = "resolve_end"

(* C18: whenever workflow_id is not empty and the collection holds an      *)
(* entry of that id, that entry is the active workflow.                    *)

C18_SelectedEntryIsActive ==
    (phase = "run" /\ workflow_id # <<>> /\ find(workflows, workflow_id) # <<>>) =>
        workflow = find(workflows, workflow_id)

(* C19: whenever there is an active workflow, its id is workflow_id and    *)
(* metadata is the extraction of its current graph.                        *)

C19_ActiveWorkflowMatchesSelection ==
    (phase = "run" /\ workflow # <<>>) =>
        LET wf == workflows[workflow[1]]
        IN /\ wf.id = workflow_id
           /\ WellFormed(wf.graph)
           /\ metadata = gather_params(import_graph(wf.graph).value)

(* C20: the keys of params are the names the metadata declares, in every   *)
(* state, also when two descriptors have the same name.                    *)

C20_ParamKeysAreSchemaNames ==
    DOMAIN params = Names(metadata)

\* a graph with two parameters of one name is resolved, after another schema
C20_Witness ==
    /\ phase = "run"
    /\ ncalls > 0
    /\ graph = <<import_graph(G_dup).value>>
    /\ Len(metadata) = 2
    /\ metadata[1].name = metadata[2].name
    /\ DOMAIN params = {StrV("Steps")}
    /\ CountSig(events, "params_changed") = 1

====
